---- MODULE Spec2Model ----
(***************************************************************************)
(* ST7789 colour dashboard (st7789_rsdesign_color_dashboard_allinone.py): *)
(* the SPI transport (cmd, data, reset), the controller driver            *)
(* (init_display, set_window, push), the pixel codec (rgb565), the        *)
(* network-history window (update_net_hist) and the page scheduler (main).*)
(*                                                                         *)
(* Everything the program puts on the link is recorded as an event:       *)
(*   [op |-> "rst", v]        the reset line driven to level v            *)
(*   [op |-> "dc",  v]        the command/data line driven to level v     *)
(*                            (0 = dc.off() = command, 1 = dc.on() = data)*)
(*   [op |-> "spi", buf, lo, hi]  one SPI transfer of the slice           *)
(*                            buf[lo:hi] (Python slice, 0-based, hi excl.)*)
(*   [op |-> "sleep", num, den]   time.sleep of num/den milliseconds      *)
(***************************************************************************)
EXTENDS Integers, Sequences, FiniteSets, TLC

VARIABLES
    pc,        \* position of the program
    ctrl,      \* controller state the driver has driven the panel to
    rstLine,   \* level of the reset line (-1: not driven yet)
    dcLine,    \* level of the command/data line (-1: not driven yet)
    boot,      \* events emitted by init_display
    wire,      \* events emitted for the current frame (or the current call)
    p,         \* main: index of the current page
    k,         \* main: animation phase of the current WEATHER frame
    img,       \* main: the frame returned by the last render call
    phases,    \* phase arguments of the render calls of the current visit
    npush,     \* number of push calls of the current visit
    order,     \* page indices of the first visits, in order (history)
    arg,       \* argument of the call under test (transport, codec)
    out,       \* result of the call under test (codec)
    net_hist,  \* update_net_hist: the window of samples
    last_net,  \* update_net_hist: baseline counters (_last_net)
    last_t,    \* update_net_hist: baseline timestamp in ms (_last_t)
    ncalls     \* number of update_net_hist calls made

vars == <<pc, ctrl, rstLine, dcLine, boot, wire, p, k, img, phases, npush,
          order, arg, out, net_hist, last_net, last_t, ncalls>>

(***************************************************************************)
(* Panel constants.                                                        *)
(***************************************************************************)
WIDTH == 172
HEIGHT == 320
X_OFFSET == 34
Y_OFFSET == 0
PAGE_TIME == 6
WEATHER_FRAME_HZ == 6
CHUNK == 4096
NET_SAMPLES == 60

None == [kind |-> "none"]

Min(a, b) == IF a < b THEN a ELSE b
Max(a, b) == IF a > b THEN a ELSE b

(***************************************************************************)
(* Bit operations on naturals, as Python computes them on ints.           *)
(***************************************************************************)
RECURSIVE BitAnd(_, _)
BitAnd(a, b) ==
    IF a = 0 \/ b = 0 THEN 0
    ELSE (a % 2) * (b % 2) + 2 * BitAnd(a \div 2, b \div 2)

RECURSIVE BitOr(_, _)
BitOr(a, b) ==
    IF a = 0 THEN b
    ELSE IF b = 0 THEN a
    ELSE Max(a % 2, b % 2) + 2 * BitOr(a \div 2, b \div 2)

RECURSIVE Pow2(_)
Pow2(n) == IF n = 0 THEN 1 ELSE 2 * Pow2(n - 1)

Shl(a, n) == a * Pow2(n)
Shr(a, n) == a \div Pow2(n)

(***************************************************************************)
(* Buffers and events.                                                     *)
(***************************************************************************)
Bytes(s) == [kind |-> "bytes", seq |-> s]

BufLen(b) == IF b.kind = "bytes" THEN Len(b.seq) ELSE b.len

RstEv(v) == [op |-> "rst", v |-> v]
DcEv(v) == [op |-> "dc", v |-> v]
SpiEv(b, lo, hi) == [op |-> "spi", buf |-> b, lo |-> lo, hi |-> hi]
SleepEv(num, den) == [op |-> "sleep", num |-> num, den |-> den]

\* range(0, n, CHUNK): the start offsets of the blocks of a buffer of n bytes
ChunkStarts(n) == [i \in 1..((n + CHUNK - 1) \div CHUNK) |-> (i - 1) * CHUNK]

(***************************************************************************)
(* Transport.                                                              *)
(***************************************************************************)
cmd(c) == <<DcEv(0), SpiEv(Bytes(<<BitAnd(c, 255)>>), 0, 1)>>

\* data with each block one byte short (b[i:i+4095])
data_short(b) ==
    LET starts == ChunkStarts(BufLen(b))
    IN  <<DcEv(1)>> \o
        [i \in 1..Len(starts) |->
            SpiEv(b, starts[i], Min(starts[i] + CHUNK - 1, BufLen(b)))]

data(b) ==
    LET starts == ChunkStarts(BufLen(b))
    IN  <<DcEv(1)>> \o
        [i \in 1..Len(starts) |->
            SpiEv(b, starts[i], Min(starts[i] + CHUNK, BufLen(b)))]

reset ==
    << RstEv(1), SleepEv(50, 1),
       RstEv(0), SleepEv(50, 1),
       RstEv(1), SleepEv(150, 1) >>

(***************************************************************************)
(* Driver: the steps of init_display, the addressing window, push.        *)
(***************************************************************************)
init_swreset == cmd(1) \o <<SleepEv(150, 1)>>
init_slpout == cmd(17) \o <<SleepEv(150, 1)>>
init_colmod == cmd(58) \o data(Bytes(<<85>>))
init_madctl == cmd(54) \o data(Bytes(<<8>>))
init_invon == cmd(33)
\* DISPON without the closing wait
init_dispon_nowait == cmd(41)

init_dispon == cmd(41) \o <<SleepEv(50, 1)>>

Addr(a0, a1) ==
    Bytes(<< BitAnd(Shr(a0, 8), 255), BitAnd(a0, 255),
             BitAnd(Shr(a1, 8), 255), BitAnd(a1, 255) >>)

\* the window with its end columns and rows one too far (the -1 forgotten)
set_window_end_excl ==
    cmd(42) \o data(Addr(X_OFFSET, X_OFFSET + WIDTH)) \o
    cmd(43) \o data(Addr(Y_OFFSET, Y_OFFSET + HEIGHT)) \o
    cmd(44)

set_window ==
    cmd(42) \o data(Addr(X_OFFSET, X_OFFSET + WIDTH - 1)) \o
    cmd(43) \o data(Addr(Y_OFFSET, Y_OFFSET + HEIGHT - 1)) \o
    cmd(44)

\* img.convert("RGB").tobytes() of a WIDTH x HEIGHT page frame has
\* 3 * WIDTH * HEIGHT bytes; rgb565 returns a buffer of (len // 3) * 2 bytes.
PackedFrame(frame) ==
    [kind |-> "rgb565", img |-> frame,
     len |-> ((3 * WIDTH * HEIGHT) \div 3) * 2]

push(frame) == set_window \o data(PackedFrame(frame))

(***************************************************************************)
(* Line levels after a run of events.                                      *)
(***************************************************************************)
\* The level the last event of kind op in evs drives its line to
LastLevel(evs, op, dflt) ==
    LET at == {i \in 1..Len(evs) : evs[i].op = op}
    IN  IF at = {} THEN dflt
        ELSE evs[CHOOSE i \in at : \A j \in at : j <= i].v

(***************************************************************************)
(* Bounds of the model.                                                    *)
(***************************************************************************)
MaxVisits == 7
MaxCalls == 3

(***************************************************************************)
(* Pages.  A frame is the WIDTH x HEIGHT image a page function returns,   *)
(* named by what was drawn on it.                                          *)
(***************************************************************************)
pages == <<"PERF", "STATUS", "WEATHER">>

Frame(page, phase, content) ==
    [kind |-> "frame", page |-> page, phase |-> phase, content |-> content]

Returned(frame) == [ok |-> TRUE, img |-> frame]
Raised(err) == [ok |-> FALSE, err |-> err]

\* What the weather API can answer: the key in the environment, the outcome
\* of the two HTTP requests, the top-level keys of the current-weather
\* object, and the shape of the forecast list.
ApiKeys == {"", "key"}
Fetches == {"ok", "error"}
CurKeys == {"weather", "main", "wind"}
Forecasts == {"empty", "complete", "incomplete"}
WeatherEnvs ==
    [api : ApiKeys, fetch : Fetches, cur : SUBSET CurKeys, fc : Forecasts]

page_weather(anim_phase, env) ==
    IF env.api = "" THEN Returned(Frame("WEATHER", 0, "set_key"))
    ELSE IF env.fetch = "error"
        THEN Returned(Frame("WEATHER", 0, "unavailable"))
    ELSE IF "weather" \notin env.cur THEN Raised("KeyError")
    ELSE IF "main" \notin env.cur THEN Raised("KeyError")
    ELSE IF env.fc = "incomplete" THEN Raised("KeyError")
    ELSE Returned(Frame("WEATHER", anim_phase, "full"))

page_perf == Returned(Frame("PERF", 0, "full"))

page_status == Returned(Frame("STATUS", 0, "full"))

frames == Max(1, PAGE_TIME * WEATHER_FRAME_HZ)

(***************************************************************************)
(* update_net_hist.  Time is in milliseconds; int() truncates towards     *)
(* zero.                                                                   *)
(***************************************************************************)
Trunc(n, d) == IF n >= 0 THEN n \div d ELSE -((-n) \div d)

update_net_hist(st, c, t) ==
    IF st.last_net.kind = "none"
    THEN [net_hist |-> st.net_hist, last_net |-> c, last_t |-> t]
    ELSE LET dt == Max(t - st.last_t, 1)
             dbytes == (c.bytes_recv - st.last_net.bytes_recv)
                       + (c.bytes_sent - st.last_net.bytes_sent)
             kbps == Trunc(dbytes * 8, dt)
             sample == Min(kbps, 9999)
         IN  [net_hist |-> Tail(st.net_hist) \o <<sample>>,
              last_net |-> c, last_t |-> t]

NetState == [net_hist |-> net_hist, last_net |-> last_net, last_t |-> last_t]

NetCall(c, t) ==
    LET st == update_net_hist(NetState, c, t)
    IN  /\ net_hist' = st.net_hist
        /\ last_net' = st.last_net
        /\ last_t' = st.last_t
        /\ ncalls' = Min(ncalls + 1, MaxCalls)

\* The counters and the clock seen by the dashboard run of the main model.
Counters(recv, sent) ==
    [kind |-> "snetio", bytes_recv |-> recv, bytes_sent |-> sent]

QuietCounters == Counters(0, 0)
QuietClock == 0

(***************************************************************************)
(* The main program: start-up.                                             *)
(***************************************************************************)
StartupPcs ==
    {"import", "reset", "swreset", "slpout", "colmod", "madctl", "invon",
     "dispon"}

SchedVars == <<p, k, img, phases, npush, order>>
TestVars == <<arg, out>>
NetVars == <<net_hist, last_net, last_t, ncalls>>

Init ==
    /\ pc = "import"
    /\ ctrl = "Uninitialized"
    /\ rstLine = -1
    /\ dcLine = -1
    /\ boot = <<>>
    /\ wire = <<>>
    /\ p = 0
    /\ k = 0
    /\ img = None
    /\ phases = <<>>
    /\ npush = 0
    /\ order = <<>>
    /\ arg = None
    /\ out = None
    /\ net_hist = [i \in 1..NET_SAMPLES |-> 0]
    /\ last_net = None
    /\ last_t = None
    /\ ncalls = 0

\* One step of init_display: the events go out, the line levels follow.
InitStep(from, evs, to, state) ==
    /\ pc = from
    /\ pc' = to
    /\ ctrl' = state
    /\ boot' = boot \o evs
    /\ rstLine' = LastLevel(evs, "rst", rstLine)
    /\ dcLine' = LastLevel(evs, "dc", dcLine)
    /\ UNCHANGED <<wire, SchedVars, TestVars, NetVars>>

\* spi.open and the two DigitalOutputDevice constructors at module level
OpenLink ==
    /\ pc = "import"
    /\ pc' = "reset"
    /\ UNCHANGED <<ctrl, rstLine, dcLine, boot, wire, SchedVars, TestVars,
                   NetVars>>

Reset == InitStep("reset", reset, "swreset", "Resetting")
SwReset == InitStep("swreset", init_swreset, "slpout", "Initializing")
SlpOut == InitStep("slpout", init_slpout, "colmod", "Initializing")
ColMod == InitStep("colmod", init_colmod, "madctl", "Initializing")
MadCtl == InitStep("madctl", init_madctl, "invon", "Initializing")
InvOn == InitStep("invon", init_invon, "dispon", "Initializing")
DispOn == InitStep("dispon", init_dispon, "prime", "Ready")

\* the fault caught and ignored around init_display
Fault_swallowed ==
    /\ pc \in StartupPcs
    /\ pc' = "prime"
    /\ UNCHANGED <<ctrl, rstLine, dcLine, boot, wire, SchedVars, TestVars,
                   NetVars>>

\* A transport or control-line fault: the exception leaves main, which has no
\* handler, and the process ends.
Fault ==
    /\ pc \in StartupPcs
    /\ pc' = "aborted"
    /\ UNCHANGED <<ctrl, rstLine, dcLine, boot, wire, SchedVars, TestVars,
                   NetVars>>

\* psutil.cpu_percent priming and the first update_net_hist call
Prime ==
    /\ pc = "prime"
    /\ pc' = "visit"
    /\ NetCall(QuietCounters, QuietClock)
    /\ p' = 0
    /\ UNCHANGED <<ctrl, rstLine, dcLine, boot, wire, k, img, phases, npush,
                   order, TestVars>>

(***************************************************************************)
(* The main program: the scheduler loop.                                   *)
(***************************************************************************)
\* the index stepped by two
NextPage_skip(q) == (q + 2) % Len(pages)

NextPage(q) == (q + 1) % Len(pages)

Remember(q) == IF Len(order) < MaxVisits THEN Append(order, q) ELSE order

\* name, fn = pages[p]: a visit of page p begins
StartVisit ==
    /\ pc = "visit"
    /\ pc' = "render"
    /\ k' = IF pages[p + 1] = "WEATHER" THEN 0 ELSE k
    /\ phases' = <<>>
    /\ npush' = 0
    /\ order' = Remember(p)
    /\ UNCHANGED <<ctrl, rstLine, dcLine, boot, wire, p, img, TestVars,
                   NetVars>>

\* img = fn() of a static page that reads no network counters
RenderPerf ==
    /\ pc = "render"
    /\ pages[p + 1] = "PERF"
    /\ img' = page_perf.img
    /\ phases' = Append(phases, 0)
    /\ wire' = <<>>
    /\ pc' = "push"
    /\ UNCHANGED <<ctrl, rstLine, dcLine, boot, p, k, npush, order, TestVars,
                   NetVars>>

\* img = fn() of the STATUS page, which calls update_net_hist
RenderStatus ==
    /\ pc = "render"
    /\ pages[p + 1] = "STATUS"
    /\ img' = page_status.img
    /\ NetCall(QuietCounters, QuietClock)
    /\ phases' = Append(phases, 0)
    /\ wire' = <<>>
    /\ pc' = "push"
    /\ UNCHANGED <<ctrl, rstLine, dcLine, boot, p, k, npush, order, TestVars>>

\* img = fn(anim_phase=k): the frame comes back, or the exception leaves main
RenderWeather ==
    /\ pc = "render"
    /\ pages[p + 1] = "WEATHER"
    /\ \E env \in WeatherEnvs :
          LET r == page_weather(k, env)
          IN  /\ img' = IF r.ok THEN r.img ELSE img
              /\ pc' = IF r.ok THEN "push" ELSE "raised"
    /\ phases' = Append(phases, k)
    /\ wire' = <<>>
    /\ UNCHANGED <<ctrl, rstLine, dcLine, boot, p, k, npush, order, TestVars,
                   NetVars>>

\* push(img)
Push ==
    /\ pc = "push"
    /\ pc' = "sleep"
    /\ wire' = wire \o push(img)
    /\ dcLine' = LastLevel(push(img), "dc", dcLine)
    /\ npush' = npush + 1
    /\ UNCHANGED <<ctrl, rstLine, boot, p, k, img, phases, order, TestVars,
                   NetVars>>

\* every page taken through the animation branch
Sleep_all_animated ==
    /\ pc = "sleep"
    /\ wire' = Append(wire, SleepEv(1000, WEATHER_FRAME_HZ))
    /\ IF Len(phases) < frames
       THEN k' = k + 1 /\ pc' = "render"
       ELSE k' = k /\ pc' = "advance"
    /\ UNCHANGED <<ctrl, rstLine, dcLine, boot, p, img, phases, npush, order,
                   TestVars, NetVars>>

\* time.sleep after a push; the for loop over range(frames) steps or ends
Sleep ==
    /\ pc = "sleep"
    /\ IF pages[p + 1] = "WEATHER"
       THEN /\ wire' = Append(wire, SleepEv(1000, WEATHER_FRAME_HZ))
            /\ IF k + 1 < frames
               THEN k' = k + 1 /\ pc' = "render"
               ELSE k' = k /\ pc' = "advance"
       ELSE /\ wire' = Append(wire, SleepEv(PAGE_TIME * 1000, 1))
            /\ k' = k
            /\ pc' = "advance"
    /\ UNCHANGED <<ctrl, rstLine, dcLine, boot, p, img, phases, npush, order,
                   TestVars, NetVars>>

\* p = (p + 1) % len(pages)
Advance ==
    /\ pc = "advance"
    /\ pc' = "visit"
    /\ p' = NextPage(p)
    /\ UNCHANGED <<ctrl, rstLine, dcLine, boot, wire, k, img, phases, npush,
                   order, TestVars, NetVars>>

Next ==
    \/ OpenLink \/ Reset \/ SwReset \/ SlpOut \/ ColMod \/ MadCtl \/ InvOn
    \/ DispOn \/ Fault \/ Prime
    \/ StartVisit \/ RenderPerf \/ RenderStatus \/ RenderWeather
    \/ Push \/ Sleep \/ Advance

Spec == Init /\ [][Next]_vars

\* The interpreter runs the single thread whenever it can take a step.
FairSpec == Spec /\ WF_vars(Next)

(***************************************************************************)
(* Reading the link: what the panel receives.                              *)
(***************************************************************************)
IsPrefix(a, b) == Len(a) <= Len(b) /\ a = SubSeq(b, 1, Len(a))

\* The SPI transfers of a run of events, each with the level the
\* command/data line had when it was made (dc: the level before the run).
RECURSIVE Framed(_, _)
Framed(evs, dc) ==
    IF evs = <<>> THEN <<>>
    ELSE LET e == Head(evs)
         IN  IF e.op = "dc" THEN Framed(Tail(evs), e.v)
             ELSE IF e.op = "spi"
                 THEN <<[mode |-> dc, buf |-> e.buf, lo |-> e.lo, hi |-> e.hi]>>
                      \o Framed(Tail(evs), dc)
             ELSE Framed(Tail(evs), dc)

\* The bytes of one transfer of an explicit byte buffer
Payload(t) == SubSeq(t.buf.seq, t.lo + 1, t.hi)

IsCmd(t, c) == t.mode = 0 /\ t.buf.kind = "bytes" /\ Payload(t) = <<c>>
IsData(t, bs) == t.mode = 1 /\ t.buf.kind = "bytes" /\ Payload(t) = bs

Hi(n) == (n \div 256) % 256
Lo(n) == n % 256

\* Transfers ts[from..] carry, in data mode and in order, all the bytes of
\* the packed pixel stream of frame and nothing else.
IsPixelStream(ts, from, frame) ==
    /\ Len(ts) >= from
    /\ \A i \in from..Len(ts) :
          /\ ts[i].mode = 1
          /\ ts[i].buf.kind = "rgb565"
          /\ ts[i].buf.img = frame
          /\ ts[i].buf.len = 2 * WIDTH * HEIGHT
          /\ ts[i].lo < ts[i].hi
          /\ ts[i].lo = (IF i = from THEN 0 ELSE ts[i - 1].hi)
    /\ ts[Len(ts)].hi = 2 * WIDTH * HEIGHT

IsPushOf(evs, frame) ==
    LET ts == Framed(evs, -1)
    IN  /\ \A i \in 1..Len(evs) : evs[i].op \in {"dc", "spi"}
        /\ Len(ts) > 5
        /\ IsCmd(ts[1], 42)
        /\ IsData(ts[2], << Hi(X_OFFSET), Lo(X_OFFSET),
                            Hi(X_OFFSET + WIDTH - 1), Lo(X_OFFSET + WIDTH - 1) >>)
        /\ IsData(ts[2], <<0, 34, 0, 205>>)
        /\ IsCmd(ts[3], 43)
        /\ IsData(ts[4], << Hi(Y_OFFSET), Lo(Y_OFFSET),
                            Hi(Y_OFFSET + HEIGHT - 1), Lo(Y_OFFSET + HEIGHT - 1) >>)
        /\ IsData(ts[4], <<0, 0, 1, 63>>)
        /\ IsCmd(ts[5], 44)
        /\ IsPixelStream(ts, 6, frame)

(***************************************************************************)
(* C1: every push(img) puts on the link exactly: command 0x2A and the 4   *)
(* column bytes 00 22 00 CD, command 0x2B and the 4 row bytes 00 00 01 3F,*)
(* command 0x2C, then the whole packed pixel stream of img as data; the   *)
(* push emits nothing else, and nothing is on the frame's wire before it. *)
(***************************************************************************)
C1_PushSequence ==
    /\ pc = "push" => wire = <<>>
    /\ pc = "sleep" => IsPushOf(wire, img)

C1_Witness ==
    /\ pc = "sleep"
    /\ img.kind = "frame"
    /\ img.page = "WEATHER"
    /\ img.phase = frames - 1

(***************************************************************************)
(* C2: init_display emits exactly: the reset pulse (on 50 ms, off 50 ms,  *)
(* on 150 ms), 0x01 and a wait of 150 ms, 0x11 and a wait of 150 ms, 0x3A *)
(* with data 0x55, 0x36 with one data byte, 0x21, 0x29, a wait of 50 ms;  *)
(* the controller state is Uninitialized before the pulse, Resetting      *)
(* after it, Initializing from the software reset on, and Ready exactly   *)
(* when the whole sequence is out.                                         *)
(***************************************************************************)
Command(c) == <<DcEv(0), SpiEv(Bytes(<<c>>), 0, 1)>>
OneData(b) == <<DcEv(1), SpiEv(Bytes(<<b>>), 0, 1)>>

ResetPulse ==
    << RstEv(1), SleepEv(50, 1), RstEv(0), SleepEv(50, 1),
       RstEv(1), SleepEv(150, 1) >>

InitSequence(madctl) ==
    ResetPulse
    \o Command(1) \o <<SleepEv(150, 1)>>
    \o Command(17) \o <<SleepEv(150, 1)>>
    \o Command(58) \o OneData(85)
    \o Command(54) \o OneData(madctl)
    \o Command(33)
    \o Command(41)
    \o <<SleepEv(50, 1)>>

InitComplete == \E m \in 0..255 : boot = InitSequence(m)

C2_InitSequence ==
    /\ \E m \in 0..255 : IsPrefix(boot, InitSequence(m))
    /\ ctrl \in {"Uninitialized", "Resetting", "Initializing", "Ready"}
    /\ ctrl = "Uninitialized" <=> boot = <<>>
    /\ ctrl = "Resetting" <=> boot = ResetPulse
    /\ ctrl = "Initializing" <=>
          (Len(boot) >= Len(ResetPulse) + 3 /\ ~InitComplete)
    /\ ctrl = "Ready" <=> InitComplete

C2_Witness == ctrl = "Ready" /\ pc = "prime" /\ rstLine = 1

(***************************************************************************)
(* C3: a frame is rendered or pushed only when the controller is Ready    *)
(* and the whole initialization sequence, final wait included, is out;    *)
(* once the loop is entered the sequence is never emitted again (no reset *)
(* line event and no command other than 0x2A, 0x2B, 0x2C goes out, and    *)
(* the controller stays Ready); after a start-up fault nothing is ever    *)
(* rendered or pushed.                                                     *)
(***************************************************************************)
LoopPcs == {"visit", "render", "push", "sleep", "advance", "raised"}

LoopEntered ==
    \/ pc \in LoopPcs \ {"visit"}
    \/ order # <<>>
    \/ phases # <<>>
    \/ img # None
    \/ wire # <<>>

FrameCommandsOnly(evs) ==
    LET ts == Framed(evs, dcLine)
    IN  /\ \A i \in 1..Len(evs) : evs[i].op # "rst"
        /\ \A i \in 1..Len(ts) :
              ts[i].mode = 0 =>
                  (IsCmd(ts[i], 42) \/ IsCmd(ts[i], 43) \/ IsCmd(ts[i], 44))

C3_OnlyWhenReady ==
    /\ [](LoopEntered =>
            ctrl = "Ready" /\ InitComplete /\ FrameCommandsOnly(wire))
    /\ [](pc = "aborted" => ~LoopEntered /\ ctrl # "Ready")
    /\ [][pc = "aborted" => pc' = "aborted"]_vars
    /\ [][ctrl = "Ready" =>
            ctrl' = "Ready" /\ boot' = boot /\ rstLine' = rstLine]_vars

C3_Witness ==
    /\ pc = "sleep"
    /\ ctrl = "Ready"
    /\ Len(order) > Len(pages)

(***************************************************************************)
(* C4: every visit to the WEATHER page makes exactly frames = 36 render   *)
(* calls with phases 0, 1, ..., 35 in order, each returned frame pushed   *)
(* once before the next render call, each push followed by a sleep of     *)
(* 1/WEATHER_FRAME_HZ seconds, and the visit ends only after the last     *)
(* phase.                                                                  *)
(***************************************************************************)
InVisit == pc \in {"render", "push", "sleep", "advance", "raised"}

CountUp(n) == [i \in 1..n |-> i - 1]

IsFrameSleep(e) ==
    e.op = "sleep" /\ e.num * WEATHER_FRAME_HZ = 1000 * e.den

AnimatedSteps ==
    /\ phases = CountUp(Len(phases))
    /\ Len(phases) <= frames
    /\ pc = "render" =>
          /\ npush = Len(phases)
          /\ k = Len(phases)
          /\ npush > 0 => IsFrameSleep(wire[Len(wire)])
    /\ pc = "push" =>
          /\ npush = Len(phases) - 1
          /\ k = Len(phases) - 1
          /\ img \in {Frame("WEATHER", k, "full"),
                      Frame("WEATHER", 0, "set_key"),
                      Frame("WEATHER", 0, "unavailable")}
    /\ pc = "sleep" =>
          /\ npush = Len(phases)
          /\ IsPushOf(wire, img)
    /\ pc = "advance" =>
          /\ IsPushOf(SubSeq(wire, 1, Len(wire) - 1), img)
          /\ IsFrameSleep(wire[Len(wire)])

C4_AnimatedVisit ==
    (InVisit /\ pages[p + 1] = "WEATHER") =>
        /\ frames = 36
        /\ AnimatedSteps
        /\ pc \in {"advance", "raised"} =>
              (Len(phases) = frames /\ npush = frames)

\* The same with the visits a raising render call cut short left out.
C4_UnlessRaised ==
    (InVisit /\ pc # "raised" /\ pages[p + 1] = "WEATHER") => C4_AnimatedVisit

(***************************************************************************)
(* C5: every visit to a static page (PERF, STATUS) makes exactly one      *)
(* render call and one push, of the frame that call returned, then sleeps *)
(* for PAGE_TIME = 6 s, and only then is the visit over.                   *)
(***************************************************************************)
IsPageSleep(e) == e.op = "sleep" /\ e.num = 6000 * e.den

C5_StaticVisit ==
    (InVisit /\ pages[p + 1] \in {"PERF", "STATUS"}) =>
        /\ pc # "raised"
        /\ pc = "render" => (phases = <<>> /\ npush = 0)
        /\ pc = "push" =>
              /\ phases = <<0>>
              /\ npush = 0
              /\ img = Frame(pages[p + 1], 0, "full")
        /\ pc = "sleep" =>
              /\ phases = <<0>>
              /\ npush = 1
              /\ IsPushOf(wire, img)
        /\ pc = "advance" =>
              /\ phases = <<0>>
              /\ npush = 1
              /\ img = Frame(pages[p + 1], 0, "full")
              /\ IsPushOf(SubSeq(wire, 1, Len(wire) - 1), img)
              /\ IsPageSleep(wire[Len(wire)])

C5_Witness ==
    /\ pc = "advance"
    /\ pages[p + 1] = "STATUS"
    /\ Len(order) > Len(pages)

(***************************************************************************)
(* C6: pages are visited round-robin, PERF, STATUS, WEATHER, PERF, ...,   *)
(* from index 0: the index stays in 0..len(pages)-1 and only ever steps   *)
(* to (p+1) mod len(pages), one visit per step; after any N visits each   *)
(* page has had floor(N/3) or ceil(N/3) of them; and unless a render call *)
(* raises, the loop, once entered, visits every page again and again.     *)
(***************************************************************************)
RECURSIVE CountOf(_, _, _)
CountOf(q, s, n) ==
    IF n = 0 THEN 0
    ELSE CountOf(q, s, n - 1) + (IF s[n] = q THEN 1 ELSE 0)

Balanced(s) ==
    \A n \in 0..Len(s) : \A q \in 0..2 :
        CountOf(q, s, n) \in {n \div 3, (n + 2) \div 3}

InRotation(s) ==
    /\ s # <<>> => s[1] = 0
    /\ \A i \in 1..(Len(s) - 1) : s[i + 1] = (s[i] + 1) % 3

C6_RoundRobin ==
    /\ [](pages = <<"PERF", "STATUS", "WEATHER">>)
    /\ [](p \in 0..(Len(pages) - 1))
    /\ [](InRotation(order) /\ Balanced(order))
    /\ [][p' # p => (pc = "advance" /\ p' = (p + 1) % 3)]_vars
    /\ [][pc = "advance" => (pc' = "visit" /\ p' # p)]_vars
    /\ [][pc' = "render" /\ phases' = <<>> =>
            (pc = "visit" /\ (Len(order) < MaxVisits =>
                                 order' = Append(order, p)))]_vars
    /\ \/ <>(pc = "raised")
       \/ <>(pc = "aborted")
       \/ \A q \in 0..2 : []<>(pc = "render" /\ p = q /\ phases = <<>>)

C6_Witness ==
    /\ pc = "render"
    /\ p = 0
    /\ phases = <<>>
    /\ Len(order) = MaxVisits

(***************************************************************************)
(* C7: no render call of the scheduler loop ever raises: whatever the     *)
(* data source does, the page function returns a frame.                    *)
(***************************************************************************)
C7_NeverRaises ==
    /\ pc # "raised"
    /\ pc = "push" => img.kind = "frame"

(***************************************************************************)
(* The transport on its own: cmd and data called with arbitrary           *)
(* arguments, from any level of the command/data line.                     *)
(***************************************************************************)
MaxCmdArg == 300
MaxBlocks == 2
MaxSeed == 2

\* Byte strings whose blocks all differ
Pattern(n, seed) == [i \in 1..n |-> (i * seed + (i \div CHUNK)) % 251]

LinkLengths ==
    {0, 1, 2} \cup
    {j * CHUNK + d : j \in 1..MaxBlocks, d \in {-1, 0, 1}}

CmdArgs == 0..MaxCmdArg
DataArgs == {Bytes(Pattern(n, seed)) : n \in LinkLengths, seed \in 1..MaxSeed}

DriverIdle ==
    /\ ctrl = "Uninitialized"
    /\ rstLine = -1
    /\ boot = <<>>
    /\ p = 0
    /\ k = 0
    /\ img = None
    /\ phases = <<>>
    /\ npush = 0
    /\ order = <<>>

NetIdle ==
    /\ net_hist = [i \in 1..NET_SAMPLES |-> 0]
    /\ last_net = None
    /\ last_t = None
    /\ ncalls = 0

LinkInit ==
    /\ pc = "link"
    /\ dcLine \in {-1, 0, 1}
    /\ wire = <<>>
    /\ arg = None
    /\ out = None
    /\ DriverIdle
    /\ NetIdle

CallCmd ==
    /\ pc = "link"
    /\ \E c \in CmdArgs :
          /\ arg' = [kind |-> "cmd", c |-> c]
          /\ wire' = cmd(c)
          /\ dcLine' = LastLevel(cmd(c), "dc", dcLine)
    /\ UNCHANGED <<pc, ctrl, rstLine, boot, SchedVars, out, NetVars>>

CallData ==
    /\ pc = "link"
    /\ \E b \in DataArgs :
          /\ arg' = [kind |-> "data", b |-> b]
          /\ wire' = data(b)
          /\ dcLine' = LastLevel(data(b), "dc", dcLine)
    /\ UNCHANGED <<pc, ctrl, rstLine, boot, SchedVars, out, NetVars>>

LinkNext == CallCmd \/ CallData

SpecLink == LinkInit /\ [][LinkNext]_vars

(***************************************************************************)
(* C9: cmd(c) drives the command/data line to command mode and then       *)
(* transfers exactly the one byte c mod 256; data(b) drives the line to   *)
(* data mode and then transfers b in consecutive blocks of 1..4096 bytes  *)
(* whose concatenation is b (no transfer when b is empty), with no line   *)
(* event between the blocks.                                               *)
(***************************************************************************)
RECURSIVE Concat(_, _)
Concat(ts, n) ==
    IF n = 0 THEN <<>> ELSE Concat(ts, n - 1) \o Payload(ts[n])

C9_Framing ==
    /\ arg.kind = "cmd" =>
          /\ Len(wire) = 2
          /\ wire[1] = DcEv(0)
          /\ wire[2].op = "spi"
          /\ Framed(wire, 1) = <<[mode |-> 0, buf |-> wire[2].buf,
                                  lo |-> wire[2].lo, hi |-> wire[2].hi]>>
          /\ IsCmd(Framed(wire, 1)[1], arg.c % 256)
          /\ dcLine = 0
    /\ arg.kind = "data" =>
          LET ts == Framed(wire, 0)
          IN  /\ wire # <<>>
              /\ wire[1] = DcEv(1)
              /\ \A i \in 2..Len(wire) : wire[i].op = "spi"
              /\ Len(ts) = Len(wire) - 1
              /\ \A i \in 1..Len(ts) :
                    /\ ts[i].mode = 1
                    /\ ts[i].hi - ts[i].lo \in 1..4096
                    /\ Len(Payload(ts[i])) = ts[i].hi - ts[i].lo
              /\ Concat(ts, Len(ts)) = arg.b.seq
              /\ (arg.b.seq = <<>> => ts = <<>>)
              /\ dcLine = 1

C9_Witness ==
    /\ arg.kind = "data"
    /\ Len(arg.b.seq) = MaxBlocks * CHUNK + 1
    /\ Len(wire) = MaxBlocks + 2

(***************************************************************************)
(* The pixel codec on its own.  An image is w x h pixels, row-major, each *)
(* an <<R, G, B>> triple of bytes.                                         *)
(***************************************************************************)
MaxW == 2
MaxH == 2

\* img.convert("RGB").tobytes(): the channels of the pixels, in order
tobytes(image) ==
    [i \in 1..(3 * Len(image.px)) |->
        image.px[((i - 1) \div 3) + 1][((i - 1) % 3) + 1]]

\* the pixel rounded to the nearest 5/6/5 level instead of truncated
Packed_rounded(rgb, i) ==
    LET r == Min(rgb[i + 1] + 4, 255)
        g == Min(rgb[i + 2] + 2, 255)
        b == Min(rgb[i + 3] + 4, 255)
        v == BitOr(BitOr(Shl(BitAnd(r, 248), 8), Shl(BitAnd(g, 252), 3)),
                   Shr(b, 3))
    IN  <<BitAnd(Shr(v, 8), 255), BitAnd(v, 255)>>

\* the two bytes written for the pixel that starts at rgb[i] (0-based i)
Packed(rgb, i) ==
    LET r == rgb[i + 1]
        g == rgb[i + 2]
        b == rgb[i + 3]
        v == BitOr(BitOr(Shl(BitAnd(r, 248), 8), Shl(BitAnd(g, 252), 3)),
                   Shr(b, 3))
    IN  <<BitAnd(Shr(v, 8), 255), BitAnd(v, 255)>>

rgb565(rgb) ==
    [j \in 1..((Len(rgb) \div 3) * 2) |->
        Packed(rgb, ((j - 1) \div 2) * 3)[((j - 1) % 2) + 1]]

Levels == {0, 85, 170, 255}
Sweep ==
    {<<c, x, y>> : c \in 0..255, x \in Levels, y \in Levels}
    \cup {<<x, c, y>> : c \in 0..255, x \in Levels, y \in Levels}
    \cup {<<x, y, c>> : c \in 0..255, x \in Levels, y \in Levels}
Palette == {<<7, 3, 7>>, <<255, 251, 8>>, <<12, 130, 200>>}

Image(w, h, px) == [w |-> w, h |-> h, px |-> px]

CodecInit ==
    /\ pc = "codec"
    /\ \/ \E c \in Sweep : arg = Image(1, 1, <<c>>)
       \/ \E w \in 1..MaxW, h \in 1..MaxH :
             \E px \in [1..(w * h) -> Palette] : arg = Image(w, h, px)
    /\ out = None
    /\ dcLine = -1
    /\ wire = <<>>
    /\ DriverIdle
    /\ NetIdle

Pack ==
    /\ pc = "codec"
    /\ pc' = "packed"
    /\ out' = rgb565(tobytes(arg))
    /\ UNCHANGED <<ctrl, rstLine, dcLine, boot, wire, SchedVars, arg, NetVars>>

CodecNext == Pack

SpecCodec == CodecInit /\ [][CodecNext]_vars

(***************************************************************************)
(* C8: for every w x h frame rgb565 returns exactly 2*w*h bytes, two per  *)
(* pixel in the pixels' order, most significant byte first, holding       *)
(* (R>>3)<<11 | (G>>2)<<5 | (B>>3); shifting the fields back gives a      *)
(* channel never above the original and below it by at most 7 (red,       *)
(* blue) or 3 (green).                                                     *)
(***************************************************************************)
Word(n) == out[2 * n - 1] * 256 + out[2 * n]

C8_Packing ==
    pc = "packed" =>
        /\ Len(out) = 2 * arg.w * arg.h
        /\ \A j \in 1..Len(out) : out[j] \in 0..255
        /\ \A n \in 1..(arg.w * arg.h) :
              LET r == arg.px[n][1]
                  g == arg.px[n][2]
                  b == arg.px[n][3]
                  r2 == (Word(n) \div 2048) * 8
                  g2 == ((Word(n) \div 32) % 64) * 4
                  b2 == (Word(n) % 32) * 8
              IN  /\ Word(n) = (r \div 8) * 2048 + (g \div 4) * 32 + (b \div 8)
                  /\ r2 <= r /\ r - r2 <= 7
                  /\ g2 <= g /\ g - g2 <= 3
                  /\ b2 <= b /\ b - b2 <= 7

C8_Witness ==
    /\ pc = "packed"
    /\ arg.w = MaxW
    /\ arg.h = MaxH
    /\ Len(out) = 2 * MaxW * MaxH
    /\ arg.px[1] # arg.px[2]

(***************************************************************************)
(* update_net_hist on its own.  psutil.net_io_counters() sums the         *)
(* interfaces that exist at the call, so the totals fall when an          *)
(* interface goes away; time.time() is the wall clock and can be set      *)
(* back.                                                                   *)
(***************************************************************************)
RecvSamples == {0, 1000, 2000000}
SentSamples == {0, 125}
ClockSamples == {0, 999, 1000, 2000}

NetInit ==
    /\ pc = "net"
    /\ NetIdle
    /\ dcLine = -1
    /\ wire = <<>>
    /\ arg = None
    /\ out = None
    /\ DriverIdle

UpdateNet ==
    /\ pc = "net"
    /\ ncalls < MaxCalls
    /\ \E recv \in RecvSamples, sent \in SentSamples, t \in ClockSamples :
          NetCall(Counters(recv, sent), t)
    /\ UNCHANGED <<pc, ctrl, rstLine, dcLine, boot, wire, SchedVars, TestVars>>

NetNext == UpdateNet

SpecNet == NetInit /\ [][NetNext]_vars

(***************************************************************************)
(* C10: net_hist always has NET_SAMPLES = 60 entries; the first call only *)
(* records the baseline; every later call drops the oldest entry and      *)
(* appends one new sample, then replaces the baseline; every stored       *)
(* sample lies in 0..9999.                                                 *)
(***************************************************************************)
WindowShape ==
    /\ Len(net_hist) = NET_SAMPLES
    /\ ncalls <= 1 => net_hist = [i \in 1..NET_SAMPLES |-> 0]
    /\ ncalls >= 1 => last_net.kind = "snetio"
    /\ \A i \in 1..NET_SAMPLES : net_hist[i] \in Int /\ net_hist[i] <= 9999
    /\ \A i \in 1..(NET_SAMPLES - MaxCalls) : net_hist[i] = 0

WindowSlides ==
    [][ncalls' # ncalls =>
          /\ last_net'.kind = "snetio"
          /\ ncalls = 0 => net_hist' = net_hist
          /\ ncalls > 0 =>
                /\ Len(net_hist') = Len(net_hist)
                /\ SubSeq(net_hist', 1, NET_SAMPLES - 1) = Tail(net_hist)]_vars

C10_Window ==
    /\ WindowShape
    /\ \A i \in 1..NET_SAMPLES : net_hist[i] \in 0..9999

\* What does hold: the shape of the window, with samples capped above only.
C10_ShapeOnly == []WindowShape /\ WindowSlides

====
